---- MODULE Spec2Model ----
(***************************************************************************)
(* Worker supervisor of yggdrasil (cmd/yggd worker handling, found in      *)
(* src/internal/transport/transporter.go lines 32-322): config loading,    *)
(* environment construction, startWorker / stopWorker / stopWorkers and    *)
(* the directory watcher watchWorkerDir.                                   *)
(*                                                                         *)
(* Durations are counted in whole seconds; the terminal sentinel of        *)
(* worker.delay (time.Duration -1, one negative nanosecond) is kept as -1: *)
(* the code only ever compares it with 0.                                  *)
(***************************************************************************)
EXTENDS Integers, Sequences, FiniteSets, TLC

VARIABLES
    cfg,        \* config directory: directive -> content of <directive>.toml
    queue,      \* channel c of watchWorkerDir: pending notify events
    watcher,    \* position of watchWorkerDir
    flows,      \* one entry per goroutine started by the watcher (startWorker chain)
    pidDir,     \* PID directory: directive -> content of <directive>.pid
    alive,      \* pids of the live OS processes
    nextPid,    \* next pid the OS hands out
    pidLimit,   \* last pid the OS hands out in this run
    died,       \* pids sent on the died channel by the stopped callback
    lastStop,   \* outcome of the most recent stopWorker call
    bulk,       \* position and outcome of stopWorkers
    fsOps,      \* number of file operations done on the config directory
    envIn,      \* worker.Env handed to the environment construction
    proxyIn,    \* ambient proxy settings (httpproxy.FromEnvironment)
    envOut      \* environment handed to startProcess

vars == <<cfg, queue, watcher, flows, pidDir, alive, nextPid, pidLimit, died, lastStop,
          bulk, fsOps, envIn, proxyIn, envOut>>

\* What the supervisor's own steps never change
inputVars == <<pidLimit, envIn, proxyIn, envOut>>

(***************************************************************************)
(* Bounds of the model.                                                    *)
(***************************************************************************)
NumDirectives == 2     \* supervised directives
MaxFsOps == 2          \* file operations on the config directory
MaxPids == 2           \* processes created while the directory is watched
ChainPids == 7         \* processes created for one worker restarting itself
MaxEnvLen == 2         \* entries of a user-declared env list

(***************************************************************************)
(* Program constants.                                                      *)
(***************************************************************************)
FastExitSeconds == 1
DelayIncrement == 5
DelayCeiling == 30

\* Directives whose workers are supervised, and one more that the static
\* exclusion set names.
Directives == 1..NumDirectives
ExcludeWorkers == {NumDirectives + 1}
Names == Directives \cup ExcludeWorkers

\* Content of a PID record: the pid written by startWorker, no file, or
\* bytes that strconv.ParseInt rejects.
NoRecord == 0
Garbage == -1

\* Content of a config file: absent, a well-formed file with protocol "grpc",
\* a well-formed file with another protocol, or bytes that toml rejects.
Absent == "absent"
FileContents == {"grpc", "other", "bad"}

\* state.SystemTime() of an exited process, in seconds
MeasuredTimes == {0, 1}

NoStop == [name |-> 0, err |-> "none", sig |-> 0]
IdleBulk == [pc |-> "idle", infos |-> <<>>, idx |-> 1, err |-> "none",
             signalled |-> <<>>, removed |-> <<>>]

(***************************************************************************)
(* loadWorkerConfig: the file is read when the event is handled.           *)
(***************************************************************************)
loadWorkerConfig(name) ==
    IF cfg[name] = Absent THEN [err |-> "cannot read file", worker |-> <<>>]
    ELSE IF cfg[name] = "bad" THEN [err |-> "cannot load config", worker |-> <<>>]
    ELSE [err |-> "nil",
          worker |-> [directive |-> name, protocol |-> cfg[name], delay |-> 0]]

\* A new supervision flow: the goroutine of watchWorkerDir calling startWorker
NewFlow(worker) ==
    [dir |-> worker.directive, protocol |-> worker.protocol, delay |-> worker.delay,
     pc |-> "start", pid |-> 0, end |-> "none",
     from |-> worker.delay, fast |-> 0, slow |-> FALSE]

\* workerExists without the stat of the config file
workerExistsAlways(name) == TRUE

workerExists(name) == cfg[name] # Absent

(***************************************************************************)
(* startWorker up to the call of startProcess: protocol switch, the check  *)
(* of the terminal delay, the backoff sleep.                               *)
(***************************************************************************)
\* startWorker without the check of the terminal delay
startWorkerEntryNoTerminal(w) ==
    IF w.protocol # "grpc" THEN "unsupported protocol"
    ELSE IF w.delay > 0 THEN "sleeping"
    ELSE "launch"

\* startWorker with the protocol switch moved after the delay handling
startWorkerEntryDelayFirst(w) ==
    IF w.delay < 0 THEN "too many times"
    ELSE IF w.delay > 0 THEN "sleeping"
    ELSE IF w.protocol # "grpc" THEN "unsupported protocol"
    ELSE "launch"

startWorkerEntry(w) ==
    IF w.protocol # "grpc" THEN "unsupported protocol"
    ELSE IF w.delay < 0 THEN "too many times"
    ELSE IF w.delay > 0 THEN "sleeping"
    ELSE "launch"

startWorker(w) ==
    LET r == startWorkerEntry(w) IN
    IF r \in {"unsupported protocol", "too many times"}
    THEN [w EXCEPT !.pc = "done", !.end = r]
    ELSE [w EXCEPT !.pc = r]

\* The goroutine spawned by the watcher enters startWorker
FlowStart(f) ==
    /\ watcher # "crashed"
    /\ flows[f].pc = "start"
    /\ flows' = [flows EXCEPT ![f] = startWorker(@)]
    /\ UNCHANGED <<cfg, queue, watcher, pidDir, alive, nextPid, died, lastStop,
                   bulk, fsOps>>
    /\ UNCHANGED inputVars

\* time.Sleep(worker.delay) returns
SleepElapsed(f) ==
    /\ watcher # "crashed"
    /\ flows[f].pc = "sleeping"
    /\ flows' = [flows EXCEPT ![f].pc = "launch"]
    /\ UNCHANGED <<cfg, queue, watcher, pidDir, alive, nextPid, died, lastStop,
                   bulk, fsOps>>
    /\ UNCHANGED inputVars

\* startProcess trying again after the OS failed to create the process
startProcessRetries(f) ==
    /\ watcher # "crashed"
    /\ flows[f].pc = "launch"
    /\ \/ /\ nextPid <= pidLimit
          /\ flows' = [flows EXCEPT ![f].pc = "started", ![f].pid = nextPid]
          /\ alive' = alive \cup {nextPid}
          /\ nextPid' = nextPid + 1
       \/ /\ flows' = [flows EXCEPT ![f].pc = "sleeping"]
          /\ UNCHANGED <<alive, nextPid>>
    /\ UNCHANGED <<cfg, queue, watcher, pidDir, died, lastStop, bulk, fsOps>>
    /\ UNCHANGED inputVars

(***************************************************************************)
(* startProcess: the OS creates the process and hands its pid to the       *)
(* callback, or fails and startWorker returns "cannot start worker".       *)
(***************************************************************************)
startProcess(f) ==
    /\ watcher # "crashed"
    /\ flows[f].pc = "launch"
    /\ \/ /\ nextPid <= pidLimit
          /\ flows' = [flows EXCEPT ![f].pc = "started", ![f].pid = nextPid]
          /\ alive' = alive \cup {nextPid}
          /\ nextPid' = nextPid + 1
       \/ /\ flows' = [flows EXCEPT ![f].pc = "done", ![f].end = "cannot start worker"]
          /\ UNCHANGED <<alive, nextPid>>
    /\ UNCHANGED <<cfg, queue, watcher, pidDir, died, lastStop, bulk, fsOps>>
    /\ UNCHANGED inputVars

(***************************************************************************)
(* The callback of startProcess up to waitProcess: create the PID          *)
(* directory, write the PID record, (started is nil for the watcher).      *)
(***************************************************************************)
startedCallback(f) ==
    /\ watcher # "crashed"
    /\ flows[f].pc = "started"
    /\ \/ /\ flows' = [flows EXCEPT ![f].pc = "done", ![f].end = "cannot create directory"]
          /\ UNCHANGED pidDir
       \/ /\ flows' = [flows EXCEPT ![f].pc = "done", ![f].end = "cannot write to file"]
          /\ UNCHANGED pidDir
       \/ /\ pidDir' = [pidDir EXCEPT ![flows[f].dir] = flows[f].pid]
          /\ flows' = [flows EXCEPT ![f].pc = "waiting"]
    /\ UNCHANGED <<cfg, queue, watcher, alive, nextPid, died, lastStop, bulk, fsOps>>
    /\ UNCHANGED inputVars

\* the ceiling compared with > instead of >=
nextDelayCeilingExclusive(delay, sysTime) ==
    LET d == IF sysTime < FastExitSeconds THEN delay + DelayIncrement ELSE delay
    IN IF d > DelayCeiling THEN -1 ELSE d

\* worker.delay after an exit with the given measured time
\* nextDelay that keeps adding and never becomes terminal
nextDelayNoCeiling(delay, sysTime) ==
    IF sysTime < FastExitSeconds THEN delay + DelayIncrement ELSE delay

\* nextDelay that starts again from zero after a slow exit
nextDelayResetOnSlow(delay, sysTime) ==
    LET d == IF sysTime < FastExitSeconds THEN delay + DelayIncrement ELSE 0
    IN IF d >= DelayCeiling THEN -1 ELSE d

nextDelay(delay, sysTime) ==
    LET d == IF sysTime < FastExitSeconds THEN delay + DelayIncrement ELSE delay
    IN IF d >= DelayCeiling THEN -1 ELSE d

(***************************************************************************)
(* waitProcess returns for an exited process: either with an error, or by  *)
(* invoking the callback that updates the delay, sends the pid on died     *)
(* and, when the config file exists, calls startWorker again.              *)
(***************************************************************************)
exited(f) ==
    /\ watcher # "crashed"
    /\ flows[f].pc = "waiting"
    /\ flows[f].pid \notin alive
    /\ \/ /\ flows' = [flows EXCEPT ![f].pc = "done",
                                     ![f].end = "process exited with an error"]
          /\ UNCHANGED died
       \/ \E sysTime \in MeasuredTimes :
            LET w == [flows[f] EXCEPT
                        !.delay = nextDelay(@, sysTime),
                        !.fast = IF sysTime < FastExitSeconds THEN @ + 1 ELSE @,
                        !.slow = @ \/ sysTime >= FastExitSeconds]
            IN /\ died' = died \cup {flows[f].pid}
               /\ flows' = [flows EXCEPT ![f] =
                              IF workerExists(w.dir) THEN startWorker(w)
                              ELSE [w EXCEPT !.pc = "done", !.end = "config removed"]]
    /\ UNCHANGED <<cfg, queue, watcher, pidDir, alive, nextPid, lastStop, bulk, fsOps>>
    /\ UNCHANGED inputVars

\* A worker process ends by itself
processExit(p) ==
    /\ watcher # "crashed"
    /\ p \in alive
    /\ alive' = alive \ {p}
    /\ UNCHANGED <<cfg, queue, watcher, flows, pidDir, nextPid, died, lastStop, bulk, fsOps>>
    /\ UNCHANGED inputVars

(***************************************************************************)
(* stopProcess delivers the signal to the pid or fails; a successful       *)
(* signal ends the process.                                                *)
(***************************************************************************)
stopProcess(pid, ok) ==
    IF ok THEN alive' = alive \ {pid} ELSE UNCHANGED alive

\* stopWorker going on after a failed read of the PID record
stopWorkerIgnoresReadError(name) ==
    IF pidDir[name] \in {NoRecord, Garbage}
    THEN /\ lastStop' = [name |-> name, err |-> "cannot parse data", sig |-> 0]
         /\ UNCHANGED <<pidDir, alive>>
    ELSE LET pid == pidDir[name] IN
         \/ /\ stopProcess(pid, FALSE)
            /\ lastStop' = [name |-> name, err |-> "cannot stop worker", sig |-> 0]
            /\ UNCHANGED pidDir
         \/ /\ stopProcess(pid, TRUE)
            /\ \/ /\ pidDir' = [pidDir EXCEPT ![name] = NoRecord]
                  /\ lastStop' = [name |-> name, err |-> "nil", sig |-> pid]
               \/ /\ UNCHANGED pidDir
                  /\ lastStop' = [name |-> name, err |-> "cannot remove file", sig |-> pid]

\* stopWorker removing the PID record whether or not the signal was delivered
stopWorkerRemovesAnyway(name) ==
    IF pidDir[name] = NoRecord
    THEN /\ lastStop' = [name |-> name, err |-> "cannot read file", sig |-> 0]
         /\ UNCHANGED <<pidDir, alive>>
    ELSE IF pidDir[name] = Garbage
    THEN /\ lastStop' = [name |-> name, err |-> "cannot parse data", sig |-> 0]
         /\ UNCHANGED <<pidDir, alive>>
    ELSE LET pid == pidDir[name] IN
         \/ /\ stopProcess(pid, FALSE)
            /\ lastStop' = [name |-> name, err |-> "cannot stop worker", sig |-> 0]
            /\ pidDir' = [pidDir EXCEPT ![name] = NoRecord]
         \/ /\ stopProcess(pid, TRUE)
            /\ \/ /\ pidDir' = [pidDir EXCEPT ![name] = NoRecord]
                  /\ lastStop' = [name |-> name, err |-> "nil", sig |-> pid]
               \/ /\ UNCHANGED pidDir
                  /\ lastStop' = [name |-> name, err |-> "cannot remove file", sig |-> pid]

(***************************************************************************)
(* stopWorker: read the PID record, parse it, signal the pid, remove the   *)
(* record; every step may fail and ends the call with its error.           *)
(***************************************************************************)
stopWorker(name) ==
    IF pidDir[name] = NoRecord
    THEN /\ lastStop' = [name |-> name, err |-> "cannot read file", sig |-> 0]
         /\ UNCHANGED <<pidDir, alive>>
    ELSE IF pidDir[name] = Garbage
    THEN /\ lastStop' = [name |-> name, err |-> "cannot parse data", sig |-> 0]
         /\ UNCHANGED <<pidDir, alive>>
    ELSE LET pid == pidDir[name] IN
         \/ /\ stopProcess(pid, FALSE)
            /\ lastStop' = [name |-> name, err |-> "cannot stop worker", sig |-> 0]
            /\ UNCHANGED pidDir
         \/ /\ stopProcess(pid, TRUE)
            /\ \/ /\ pidDir' = [pidDir EXCEPT ![name] = NoRecord]
                  /\ lastStop' = [name |-> name, err |-> "nil", sig |-> pid]
               \/ /\ UNCHANGED pidDir
                  /\ lastStop' = [name |-> name, err |-> "cannot remove file", sig |-> pid]

(***************************************************************************)
(* watchWorkerDir                                                          *)
(***************************************************************************)
\* notify.Watch succeeds, or fails and watchWorkerDir returns
watchBegin ==
    /\ watcher = "init"
    /\ watcher' \in {"running", "returned"}
    /\ UNCHANGED <<cfg, queue, flows, pidDir, alive, nextPid, died, lastStop, bulk, fsOps>>
    /\ UNCHANGED inputVars

\* case InCloseWrite, InMovedTo with a config that loads: startWorker in a goroutine
watchInstall ==
    /\ watcher = "running"
    /\ queue # <<>>
    /\ Head(queue).ev = "InCloseWrite"
    /\ LET l == loadWorkerConfig(Head(queue).name) IN
        /\ l.err = "nil"
        /\ l.worker.directive \notin ExcludeWorkers
        /\ flows' = Append(flows, NewFlow(l.worker))
    /\ queue' = Tail(queue)
    /\ UNCHANGED <<cfg, watcher, pidDir, alive, nextPid, died, lastStop, bulk, fsOps>>
    /\ UNCHANGED inputVars

\* case InCloseWrite, InMovedTo with a config that loads and is excluded: continue
watchSkipExcluded ==
    /\ watcher = "running"
    /\ queue # <<>>
    /\ Head(queue).ev = "InCloseWrite"
    /\ LET l == loadWorkerConfig(Head(queue).name) IN
        /\ l.err = "nil"
        /\ l.worker.directive \in ExcludeWorkers
    /\ queue' = Tail(queue)
    /\ UNCHANGED <<cfg, watcher, flows, pidDir, alive, nextPid, died, lastStop, bulk, fsOps>>
    /\ UNCHANGED inputVars

\* case InCloseWrite, InMovedTo with a config that does not load: the error is
\* logged and worker, a nil pointer, is dereferenced for the exclusion lookup
watchInstallNil ==
    /\ watcher = "running"
    /\ queue # <<>>
    /\ Head(queue).ev = "InCloseWrite"
    /\ loadWorkerConfig(Head(queue).name).err # "nil"
    /\ watcher' = "crashed"
    /\ queue' = Tail(queue)
    /\ UNCHANGED <<cfg, flows, pidDir, alive, nextPid, died, lastStop, bulk, fsOps>>
    /\ UNCHANGED inputVars

\* case InDelete, InMovedFrom: stopWorker, its error is logged
watchRemove ==
    /\ watcher = "running"
    /\ queue # <<>>
    /\ Head(queue).ev = "InDelete"
    /\ stopWorker(Head(queue).name)
    /\ queue' = Tail(queue)
    /\ UNCHANGED <<cfg, watcher, flows, nextPid, died, bulk, fsOps>>
    /\ UNCHANGED inputVars

(***************************************************************************)
(* The config directory: files are written (or moved in) and deleted (or   *)
(* moved out); a running watch gets one event for each.                    *)
(***************************************************************************)
notified(ev, name) ==
    IF watcher = "running" THEN Append(queue, [ev |-> ev, name |-> name]) ELSE queue

writeConfig(name, content) ==
    /\ watcher \in {"running", "returned"}
    /\ fsOps < MaxFsOps
    /\ cfg' = [cfg EXCEPT ![name] = content]
    /\ queue' = notified("InCloseWrite", name)
    /\ fsOps' = fsOps + 1
    /\ UNCHANGED <<watcher, flows, pidDir, alive, nextPid, died, lastStop, bulk>>
    /\ UNCHANGED inputVars

removeConfig(name) ==
    /\ watcher \in {"running", "returned"}
    /\ fsOps < MaxFsOps
    /\ cfg[name] # Absent
    /\ cfg' = [cfg EXCEPT ![name] = Absent]
    /\ queue' = notified("InDelete", name)
    /\ fsOps' = fsOps + 1
    /\ UNCHANGED <<watcher, flows, pidDir, alive, nextPid, died, lastStop, bulk>>
    /\ UNCHANGED inputVars

Init ==
    /\ cfg = [n \in Names |-> Absent]
    /\ queue = <<>>
    /\ watcher = "init"
    /\ flows = <<>>
    /\ pidDir = [n \in Names |-> NoRecord]
    /\ alive = {}
    /\ nextPid = 1
    /\ pidLimit = MaxPids
    /\ died = {}
    /\ lastStop = NoStop
    /\ bulk = IdleBulk
    /\ fsOps = 0
    /\ envIn = [env |-> <<>>, protocol |-> "grpc"]
    /\ proxyIn = {}
    /\ envOut = [err |-> "none", env |-> <<>>]

Next ==
    \/ watchBegin
    \/ watchInstall
    \/ watchSkipExcluded
    \/ watchInstallNil
    \/ watchRemove
    \/ \E n \in Names, c \in FileContents : writeConfig(n, c)
    \/ \E n \in Names : removeConfig(n)
    \/ \E f \in DOMAIN flows : FlowStart(f)
    \/ \E f \in DOMAIN flows : SleepElapsed(f)
    \/ \E f \in DOMAIN flows : startProcess(f)
    \/ \E f \in DOMAIN flows : startedCallback(f)
    \/ \E f \in DOMAIN flows : exited(f)
    \/ \E p \in alive : processExit(p)

Spec == Init /\ [][Next]_vars

(***************************************************************************)
(* One worker restarting itself: startWorker is called with a worker       *)
(* value whose config file is present and stays present.                   *)
(***************************************************************************)
Protocols == {"grpc", "other"}
Delays == {-1} \cup {k * DelayIncrement : k \in 0..((DelayCeiling \div DelayIncrement) - 1)}

InitWorker ==
    /\ cfg = [n \in Names |-> IF n = 1 THEN "grpc" ELSE Absent]
    /\ queue = <<>>
    /\ watcher = "running"
    /\ \E p \in Protocols, d \in Delays :
           flows = <<NewFlow([directive |-> 1, protocol |-> p, delay |-> d])>>
    /\ pidDir = [n \in Names |-> NoRecord]
    /\ alive = {}
    /\ nextPid = 1
    /\ pidLimit = ChainPids
    /\ died = {}
    /\ lastStop = NoStop
    /\ bulk = IdleBulk
    /\ fsOps = MaxFsOps
    /\ envIn = [env |-> <<>>, protocol |-> "grpc"]
    /\ proxyIn = {}
    /\ envOut = [err |-> "none", env |-> <<>>]

NextWorker ==
    \/ \E f \in DOMAIN flows : FlowStart(f)
    \/ \E f \in DOMAIN flows : SleepElapsed(f)
    \/ \E f \in DOMAIN flows : startProcess(f)
    \/ \E f \in DOMAIN flows : startedCallback(f)
    \/ \E f \in DOMAIN flows : exited(f)
    \/ \E p \in alive : processExit(p)

SpecWorker == InitWorker /\ [][NextWorker]_vars

(***************************************************************************)
(* The same worker with every enabled step eventually taken: goroutines    *)
(* are scheduled, a sleep elapses, a system call returns and a started     *)
(* process exits.                                                          *)
(***************************************************************************)
SpecWorkerFair == InitWorker /\ [][NextWorker]_vars /\ WF_vars(NextWorker)

(***************************************************************************)
(* stopWorkers: create the PID directory, list it, stop every record in    *)
(* the order of the listing (ioutil.ReadDir sorts by file name) and        *)
(* return at the first error.  Files without the suffix .pid are skipped   *)
(* and are left out of the directory here.                                 *)
(***************************************************************************)
RECURSIVE sortedNames(_)
sortedNames(S) ==
    IF S = {} THEN <<>>
    ELSE LET m == CHOOSE x \in S : \A y \in S : x <= y
         IN <<m>> \o sortedNames(S \ {m})

readDir == sortedNames({n \in Names : pidDir[n] # NoRecord})

stopWorkersBegin ==
    /\ bulk.pc = "idle"
    /\ \/ bulk' = [bulk EXCEPT !.pc = "done", !.err = "cannot create directory"]
       \/ bulk' = [bulk EXCEPT !.pc = "done", !.err = "cannot read contents of directory"]
       \/ bulk' = [bulk EXCEPT !.pc = "loop", !.infos = readDir, !.idx = 1]
    /\ UNCHANGED <<cfg, queue, watcher, flows, pidDir, alive, nextPid, died, lastStop, fsOps>>
    /\ UNCHANGED inputVars

\* The loop going on to the next entry after an error
stopWorkersStepContinue ==
    /\ bulk.pc = "loop"
    /\ bulk.idx <= Len(bulk.infos)
    /\ stopWorker(bulk.infos[bulk.idx])
    /\ bulk' = [bulk EXCEPT
                  !.signalled = IF lastStop'.sig # 0
                                THEN Append(@, bulk.infos[bulk.idx]) ELSE @,
                  !.removed = IF lastStop'.err = "nil"
                              THEN Append(@, bulk.infos[bulk.idx]) ELSE @,
                  !.idx = @ + 1,
                  !.err = IF lastStop'.err = "nil" THEN @ ELSE "cannot stop worker"]
    /\ UNCHANGED <<cfg, queue, watcher, flows, nextPid, died, fsOps>>
    /\ UNCHANGED inputVars

\* One iteration of the loop: stopWorker on the next entry, return on its error
stopWorkersStep ==
    /\ bulk.pc = "loop"
    /\ bulk.idx <= Len(bulk.infos)
    /\ stopWorker(bulk.infos[bulk.idx])
    /\ bulk' = [bulk EXCEPT
                  !.signalled = IF lastStop'.sig # 0
                                THEN Append(@, bulk.infos[bulk.idx]) ELSE @,
                  !.removed = IF lastStop'.err = "nil"
                              THEN Append(@, bulk.infos[bulk.idx]) ELSE @,
                  !.idx = IF lastStop'.err = "nil" THEN @ + 1 ELSE @,
                  !.pc = IF lastStop'.err = "nil" THEN "loop" ELSE "done",
                  !.err = IF lastStop'.err = "nil" THEN @ ELSE "cannot stop worker"]
    /\ UNCHANGED <<cfg, queue, watcher, flows, nextPid, died, fsOps>>
    /\ UNCHANGED inputVars

\* The loop is over: return nil
stopWorkersReturn ==
    /\ bulk.pc = "loop"
    /\ bulk.idx > Len(bulk.infos)
    /\ bulk' = [bulk EXCEPT !.pc = "done", !.err = "nil"]
    /\ UNCHANGED <<cfg, queue, watcher, flows, pidDir, alive, nextPid, died, lastStop, fsOps>>
    /\ UNCHANGED inputVars

\* The PID directory as stopWorkers can find it: every record absent, holding
\* the pid of a process (live or gone), or holding bytes that are no integer.
InitBulk ==
    /\ cfg = [n \in Names |-> Absent]
    /\ queue = <<>>
    /\ watcher = "running"
    /\ flows = <<>>
    /\ pidDir \in [Names -> {NoRecord, Garbage} \cup Names]
    /\ \A n \in Names : pidDir[n] \in {NoRecord, Garbage, n}
    /\ alive \in SUBSET {n \in Names : pidDir[n] = n}
    /\ nextPid = 1
    /\ pidLimit = MaxPids
    /\ died = {}
    /\ lastStop = NoStop
    /\ bulk = IdleBulk
    /\ fsOps = MaxFsOps
    /\ envIn = [env |-> <<>>, protocol |-> "grpc"]
    /\ proxyIn = {}
    /\ envOut = [err |-> "none", env |-> <<>>]

NextBulk ==
    \/ stopWorkersBegin
    \/ stopWorkersStep
    \/ stopWorkersReturn
    \/ \E p \in alive : processExit(p)

SpecBulk == InitBulk /\ [][NextBulk]_vars

(***************************************************************************)
(* The supervisor with its shutdown: stopWorkers runs once, at any moment, *)
(* next to the watcher and the workers' goroutines.                        *)
(***************************************************************************)
NextShutdown ==
    \/ Next
    \/ watcher # "crashed" /\ stopWorkersBegin
    \/ watcher # "crashed" /\ stopWorkersStep
    \/ watcher # "crashed" /\ stopWorkersReturn

SpecShutdown == Init /\ [][NextShutdown]_vars

(***************************************************************************)
(* The environment of a worker process (startWorker, before the delay      *)
(* check).  A string is the sequence of its characters.                    *)
(***************************************************************************)
Str_PATH ==
    <<"P", "A", "T", "H", "=", "/", "u", "s", "r", "/", "l", "o", "c", "a", "l", "/",
      "s", "b", "i", "n", ":", "/", "u", "s", "r", "/", "l", "o", "c", "a", "l", "/",
      "b", "i", "n", ":", "/", "u", "s", "r", "/", "s", "b", "i", "n", ":", "/", "u",
      "s", "r", "/", "b", "i", "n", ":", "/", "s", "b", "i", "n", ":", "/", "b", "i",
      "n">>
Str_YGG_CONFIG_DIR ==
    <<"Y", "G", "G", "_", "C", "O", "N", "F", "I", "G", "_", "D", "I", "R", "=", "/",
      "e", "t", "c", "/", "y", "g", "g", "d", "r", "a", "s", "i", "l">>
Str_YGG_LOG_LEVEL ==
    <<"Y", "G", "G", "_", "L", "O", "G", "_", "L", "E", "V", "E", "L", "=", "i", "n",
      "f", "o">>
Str_YGG_CLIENT_ID ==
    <<"Y", "G", "G", "_", "C", "L", "I", "E", "N", "T", "_", "I", "D", "=", "d", "a",
      "e", "m", "o", "n">>
Str_HTTP_PROXY ==
    <<"H", "T", "T", "P", "_", "P", "R", "O", "X", "Y", "=", "h", "t", "t", "p", ":",
      "/", "/", "p">>
Str_HTTPS_PROXY ==
    <<"H", "T", "T", "P", "S", "_", "P", "R", "O", "X", "Y", "=", "h", "t", "t", "p",
      "s", ":", "/", "/", "p">>
Str_NO_PROXY ==
    <<"N", "O", "_", "P", "R", "O", "X", "Y", "=", "l", "o", "c", "a", "l", "h", "o",
      "s", "t">>
Str_YGG_SOCKET_ADDR ==
    <<"Y", "G", "G", "_", "S", "O", "C", "K", "E", "T", "_", "A", "D", "D", "R", "=",
      "u", "n", "i", "x", ":", "@", "y", "g", "g">>

\* Entries a worker's config file can declare in env
UserPath ==
    <<"P", "A", "T", "H", "=", "/", "t", "m", "p">>
UserClientID ==
    <<"Y", "G", "G", "_", "C", "L", "I", "E", "N", "T", "_", "I", "D", "=", "e", "v",
      "i", "l">>
UserGoPath ==
    <<"G", "O", "P", "A", "T", "H", "=", "/", "g", "o">>
UserFoo ==
    <<"F", "O", "O", "=", "b", "a", "r">>
UserHome ==
    <<"H", "O", "M", "E", "=", "/", "r", "o", "o", "t">>
UserPrefixedYgg ==
    <<"M", "Y", "G", "G", "_", "A", "=", "1">>
UserValueYgg ==
    <<"O", "P", "T", "S", "=", "Y", "G", "G", "_", "=", "1">>
UserNoEquals ==
    <<"P", "A", "T", "H">>

EnvEntries == {UserPath, UserClientID, UserGoPath, UserFoo, UserHome,
               UserPrefixedYgg, UserValueYgg, UserNoEquals}

\* The literal s occurs in val at position i
hasAt(val, s, i) ==
    /\ i + Len(s) - 1 <= Len(val)
    /\ SubSeq(val, i, i + Len(s) - 1) = s

\* The regular expression's . matches every character but a newline
Dot(c) == c # "\n"

\* regexp "PATH=.*", matched anywhere in val (Regexp.Match is a search)
matchPATH(val) ==
    \E i \in 1..Len(val) : hasAt(val, <<"P", "A", "T", "H", "=">>, i)

\* regexp "YGG_.*=.*", matched anywhere in val
matchYGG(val) ==
    \E i \in 1..Len(val) :
        /\ hasAt(val, <<"Y", "G", "G", "_">>, i)
        /\ \E j \in (i + 4)..Len(val) :
              /\ val[j] = "="
              /\ \A k \in (i + 4)..(j - 1) : Dot(val[k])

validEnvVar(val) == ~(matchPATH(val) \/ matchYGG(val))

Proxies == {"HTTP_PROXY", "HTTPS_PROXY", "NO_PROXY"}

proxyEnv ==
    (IF "HTTP_PROXY" \in proxyIn THEN <<Str_HTTP_PROXY>> ELSE <<>>)
    \o (IF "HTTPS_PROXY" \in proxyIn THEN <<Str_HTTPS_PROXY>> ELSE <<>>)
    \o (IF "NO_PROXY" \in proxyIn THEN <<Str_NO_PROXY>> ELSE <<>>)

baseEnv == <<Str_PATH, Str_YGG_CONFIG_DIR, Str_YGG_LOG_LEVEL, Str_YGG_CLIENT_ID>>

\* startWorker from the baseline to the loop over worker.Env
buildEnv ==
    /\ envOut.err = "none"
    /\ envOut' =
         IF envIn.protocol = "grpc"
         THEN [err |-> "nil",
               env |-> baseEnv \o proxyEnv \o <<Str_YGG_SOCKET_ADDR>>
                       \o SelectSeq(envIn.env, validEnvVar)]
         ELSE [err |-> "unsupported protocol", env |-> <<>>]
    /\ UNCHANGED <<cfg, queue, watcher, flows, pidDir, alive, nextPid, died, lastStop,
                   bulk, fsOps>>
    /\ UNCHANGED <<pidLimit, envIn, proxyIn>>

EnvLists == UNION {[1..n -> EnvEntries] : n \in 0..MaxEnvLen}

InitEnv ==
    /\ cfg = [n \in Names |-> Absent]
    /\ queue = <<>>
    /\ watcher = "running"
    /\ flows = <<>>
    /\ pidDir = [n \in Names |-> NoRecord]
    /\ alive = {}
    /\ nextPid = 1
    /\ pidLimit = MaxPids
    /\ died = {}
    /\ lastStop = NoStop
    /\ bulk = IdleBulk
    /\ fsOps = MaxFsOps
    /\ envIn \in [env : EnvLists, protocol : Protocols]
    /\ proxyIn \in SUBSET Proxies
    /\ envOut = [err |-> "none", env |-> <<>>]

NextEnv == buildEnv

SpecEnv == InitEnv /\ [][NextEnv]_vars

(***************************************************************************)
(* Properties                                                              *)
(***************************************************************************)
Min(a, b) == IF a <= b THEN a ELSE b

\* Flows installed with delay 0 whose every handled exit so far was fast
OnlyFastExits(f) == flows[f].from = 0 /\ ~flows[f].slow /\ flows[f].fast >= 1

FastExitsToCeiling == DelayCeiling \div DelayIncrement

\* C1 as stated: after N consecutive fast exits from delay 0 the delay is
\* min(5*N, 30) seconds, 30 seconds after the 6th.
BackoffIsMinOfCeiling ==
    \A f \in DOMAIN flows :
        OnlyFastExits(f) =>
            flows[f].delay = Min(DelayIncrement * flows[f].fast, DelayCeiling)

\* C1 amended: after N consecutive fast exits from delay 0 the delay is 5*N
\* seconds for N = 1..5; the 6th fast exit makes it the terminal sentinel
\* (never 30 seconds), and there is no 7th.
BackoffChain ==
    \A f \in DOMAIN flows :
        OnlyFastExits(f) =>
            /\ flows[f].fast <= FastExitsToCeiling
            /\ flows[f].fast < FastExitsToCeiling =>
                   flows[f].delay = DelayIncrement * flows[f].fast
            /\ flows[f].fast = FastExitsToCeiling => flows[f].delay = -1

BackoffChainWitness ==
    \E f \in DOMAIN flows :
        /\ OnlyFastExits(f)
        /\ flows[f].fast = FastExitsToCeiling
        /\ flows[f].delay = -1

\* C2: a worker whose delay is the terminal sentinel is never launched again by
\* its own flow: the flow ends with an error before a process is created, its
\* delay stays terminal, and it keeps the pid of its last, exited process.
TerminalNeverRestarts ==
    [][\A f \in DOMAIN flows :
          /\ flows[f].delay < 0 => flows'[f].delay < 0
          /\ flows'[f].delay < 0 =>
                /\ flows'[f].pc \in {"start", "done"}
                /\ flows'[f].pid = flows[f].pid
                /\ flows'[f].pid \notin alive'
                /\ nextPid' = nextPid
                /\ flows'[f].pc = "done" =>
                      flows'[f].end \in {"too many times", "unsupported protocol",
                                         "config removed"}]_vars

TerminalWitness ==
    \E f \in DOMAIN flows :
        /\ flows[f].from = 0
        /\ flows[f].delay < 0
        /\ flows[f].pc = "done"
        /\ flows[f].end = "too many times"
        /\ cfg[flows[f].dir] # Absent

\* C3: an exit handled while the config file is absent ends the flow without a
\* launch (a flow that has ended never acts again); a flow goes from waiting to
\* the backoff sleep or to the launch only when the config file exists.
ExitWithoutConfigEnds ==
    [][\A f \in DOMAIN flows :
          /\ (flows[f].pc = "waiting" /\ flows'[f] # flows[f] /\ cfg[flows[f].dir] = Absent)
                => /\ flows'[f].pc = "done"
                   /\ flows'[f].end \in {"config removed", "process exited with an error"}
                   /\ nextPid' = nextPid
                   /\ alive' = alive
          /\ (flows[f].pc = "waiting" /\ flows'[f].pc \in {"sleeping", "launch"})
                => cfg[flows[f].dir] # Absent
          /\ flows[f].pc = "done" => flows'[f] = flows[f]]_vars

ExitWithoutConfigWitness ==
    \E f \in DOMAIN flows :
        /\ flows[f].pc = "done"
        /\ flows[f].end = "config removed"
        /\ flows[f].pid \in died

\* C4: no process is launched for a directive while its config file is absent.
NoLaunchWhileAbsent ==
    [][\A f \in DOMAIN flows :
          (flows[f].pc = "launch" /\ flows'[f].pc = "started")
              => cfg[flows[f].dir] # Absent]_vars

\* C5 (Scenario B): once the exit of a worker whose config file was removed has
\* been handled, with every event consumed and no failure of the OS in the stop,
\* the worker has ended without a restart and its PID record is removed.
ScenarioB ==
    \A f \in DOMAIN flows :
        (/\ flows[f].pc = "done"
         /\ flows[f].end = "config removed"
         /\ \A g \in DOMAIN flows : g # f => flows[g].dir # flows[f].dir
         /\ cfg[flows[f].dir] = Absent
         /\ queue = <<>>
         /\ lastStop.name = flows[f].dir
         /\ lastStop.err \in {"nil", "cannot read file"})
            => pidDir[flows[f].dir] = NoRecord

\* C6: the stop of a directive without a PID record (here the one a delete
\* event triggers) returns the read error, delivers no signal and leaves the
\* PID directory and every process as they were, each time it is done.
StopUntracked ==
    [][(/\ watcher = "running"
        /\ queue # <<>>
        /\ Head(queue).ev = "InDelete"
        /\ queue' = Tail(queue)
        /\ pidDir[Head(queue).name] = NoRecord)
          => /\ lastStop' = [name |-> Head(queue).name, err |-> "cannot read file",
                             sig |-> 0]
             /\ pidDir' = pidDir
             /\ alive' = alive]_vars

StopUntrackedWitness ==
    /\ lastStop.name \in Names
    /\ lastStop.err = "cannot read file"
    /\ lastStop.sig = 0
    /\ pidDir[lastStop.name] = NoRecord

\* C7: the watcher survives every event it handles.
WatcherSurvivesEveryEvent == watcher # "crashed"

\* PATH=* and YGG_*=* read as shell patterns over the whole entry
hasPrefix(val, s) == hasAt(val, s, 1)

Reserved(val) ==
    \/ hasPrefix(val, <<"P", "A", "T", "H", "=">>)
    \/ /\ hasPrefix(val, <<"Y", "G", "G", "_">>)
       /\ \E j \in 5..Len(val) : val[j] = "="

NotReserved(val) == ~Reserved(val)

ClientIDKey == <<"Y", "G", "G", "_", "C", "L", "I", "E", "N", "T", "_", "I", "D", "=">>

\* C8: of the user's entries exactly those that match neither PATH=* nor
\* YGG_*=* are passed on, in their order, after the baseline, proxy and protocol
\* entries, and the only YGG_CLIENT_ID entry is the daemon's.
EnvKeepsAllButReserved ==
    envOut.err = "nil" =>
        LET fixed == Len(baseEnv) + Len(proxyEnv) + 1
            user == SubSeq(envOut.env, fixed + 1, Len(envOut.env))
        IN /\ \A i \in DOMAIN user : NotReserved(user[i])
           /\ \A i \in DOMAIN envOut.env :
                 hasPrefix(envOut.env[i], ClientIDKey) => envOut.env[i] = Str_YGG_CLIENT_ID
           /\ Cardinality({i \in DOMAIN envOut.env : envOut.env[i] = Str_YGG_CLIENT_ID}) = 1
           /\ user = SelectSeq(envIn.env, NotReserved)

\* C9: a flow whose protocol is not "grpc" changes in one way only: from the
\* entry of startWorker to its end with the unsupported-protocol error, whatever
\* its delay, without a sleep, a process, a PID record or a notification.
UnsupportedProtocolOnlyFails ==
    [][\A f \in DOMAIN flows :
          (flows[f].protocol # "grpc" /\ flows'[f] # flows[f])
              => /\ flows[f].pc = "start"
                 /\ flows'[f] = [flows[f] EXCEPT !.pc = "done",
                                                 !.end = "unsupported protocol"]
                 /\ UNCHANGED <<cfg, pidDir, alive, nextPid, died, lastStop>>
                 /\ \A g \in DOMAIN flows : g # f => flows'[g] = flows[g]]_vars

UnsupportedProtocolWitness ==
    \E f \in DOMAIN flows :
        /\ flows[f].protocol # "grpc"
        /\ flows[f].delay > 0
        /\ flows[f].pc = "done"
        /\ flows[f].end = "unsupported protocol"
        /\ flows[f].pid = 0

\* C10: stopWorkers returns at the first entry whose stop fails: the entries
\* before it were signalled and removed in the order of the listing, the
\* entries after it got no signal and keep their records.
BulkStopsAtFirstFailure ==
    /\ bulk.err = "cannot stop worker" => bulk.pc = "done"
    /\ (bulk.pc = "done" /\ bulk.err = "cannot stop worker") =>
          /\ bulk.idx \in DOMAIN bulk.infos
          /\ bulk.removed = SubSeq(bulk.infos, 1, bulk.idx - 1)
          /\ \A i \in DOMAIN bulk.infos :
                /\ i < bulk.idx =>
                      /\ pidDir[bulk.infos[i]] = NoRecord
                      /\ \E j \in DOMAIN bulk.signalled : bulk.signalled[j] = bulk.infos[i]
                /\ i > bulk.idx =>
                      /\ pidDir[bulk.infos[i]] # NoRecord
                      /\ \A j \in DOMAIN bulk.signalled : bulk.signalled[j] # bulk.infos[i]
          /\ \A j \in DOMAIN bulk.signalled : bulk.signalled[j] = bulk.infos[j]

BulkStopsWitness ==
    /\ bulk.pc = "done"
    /\ bulk.err = "cannot stop worker"
    /\ bulk.idx = 2
    /\ Len(bulk.infos) >= 3
    /\ pidDir[bulk.infos[1]] = NoRecord
    /\ pidDir[bulk.infos[3]] # NoRecord

(***************************************************************************)
(* What watchWorkerDir hands to its caller when it returns: the function   *)
(* has no result, so a return after a failed notify.Watch carries no       *)
(* error value.                                                            *)
(***************************************************************************)
watchWorkerDirResult ==
    IF watcher = "returned" THEN "nil" ELSE "none"

\* C11: when notify.Watch fails, watchWorkerDir reports the failure to its
\* caller as an error, and handles no event.
WatchFailureReported ==
    watcher = "returned" =>
        /\ watchWorkerDirResult = "cannot start notify watchpoint"
        /\ queue = <<>>
        /\ flows = <<>>

\* C12: an explicit stop that fails leaves the PID record in place: a record
\* that does not parse gives an error with no signal and no change, a signal
\* that cannot be delivered gives an error and keeps the record, and a record
\* is removed only after the signal was delivered to the pid stored in it.
FailedStopKeepsRecord ==
    [][(bulk.pc = "loop" /\ bulk.idx \in DOMAIN bulk.infos /\ bulk' # bulk) =>
          LET name == bulk.infos[bulk.idx] IN
          /\ lastStop'.name = name
          /\ pidDir[name] = Garbage =>
                /\ lastStop'.err = "cannot parse data"
                /\ lastStop'.sig = 0
                /\ UNCHANGED <<pidDir, alive>>
          /\ lastStop'.err # "nil" => UNCHANGED pidDir
          /\ lastStop'.err = "cannot stop worker" =>
                /\ lastStop'.sig = 0
                /\ UNCHANGED alive
          /\ pidDir' # pidDir =>
                /\ lastStop'.err = "nil"
                /\ lastStop'.sig = pidDir[name]
                /\ pidDir[name] \notin {NoRecord, Garbage}
                /\ pidDir[name] \notin alive'
                /\ pidDir' = [pidDir EXCEPT ![name] = NoRecord]
      ]_vars

FailedStopWitness ==
    /\ bulk.pc = "done"
    /\ bulk.removed # <<>>
    /\ lastStop.err = "cannot parse data"
    /\ lastStop.sig = 0
    /\ pidDir[lastStop.name] = Garbage

\* C13: when the OS cannot create the process the start attempt ends with the
\* error "cannot start worker" and the worker does not retry: the step writes
\* no PID record, sends no notification and launches nothing, and a worker
\* ended this way takes no further step, on a first start and on a restart.
StartFailureEndsWorker ==
    [][\A f \in DOMAIN flows :
          /\ (flows[f].pc = "launch" /\ flows'[f] # flows[f]) =>
                \/ /\ flows'[f].pc = "started"
                   /\ flows'[f].pid \in alive' \ alive
                \/ /\ flows'[f] = [flows[f] EXCEPT !.pc = "done",
                                                   !.end = "cannot start worker"]
                   /\ UNCHANGED <<pidDir, alive, nextPid, died>>
          /\ (flows[f].pc = "done" /\ flows[f].end = "cannot start worker") =>
                /\ flows'[f] = flows[f]
                /\ UNCHANGED <<pidDir, nextPid, died>>
      ]_vars

StartFailureWitness ==
    \E f \in DOMAIN flows :
        /\ flows[f].pc = "done"
        /\ flows[f].end = "cannot start worker"
        /\ flows[f].fast >= 1
        /\ flows[f].pid # 0
        /\ flows[f].pid \in died
        /\ pidDir[flows[f].dir] = flows[f].pid
        /\ nextPid = flows[f].pid + 1
        /\ nextPid <= pidLimit

\* C14: every exit of a launched worker process is followed by a stopped
\* notification carrying its pid, also for a process whose PID record could
\* not be written at start: once such a process has exited and its worker
\* has ended, the pid has been sent on died.
EveryExitNotified ==
    \A f \in DOMAIN flows :
        ( /\ flows[f].pc = "done"
          /\ flows[f].pid # 0
          /\ flows[f].pid \notin alive
          /\ flows[f].end # "process exited with an error" )
        => flows[f].pid \in died

\* C15: a worker whose config file stays present and whose every exit is
\* fast eventually ends, and not because no process could be created; from
\* delay 0 it is launched at most six times (pids count the launches of the
\* one worker), and an ended worker launches nothing more.
FastExitsTerminate ==
    /\ <>(\A f \in DOMAIN flows :
             \/ flows[f].slow
             \/ /\ flows[f].pc = "done"
                /\ flows[f].end = "cannot start worker" => nextPid <= pidLimit)
    /\ [](\A f \in DOMAIN flows :
             (flows[f].from = 0 /\ ~flows[f].slow) =>
                 flows[f].pid <= FastExitsToCeiling)
    /\ [][\A f \in DOMAIN flows :
             flows[f].pc = "done" => (flows'[f] = flows[f] /\ nextPid' = nextPid)]_vars

FastExitsTerminateWitness ==
    \E f \in DOMAIN flows :
        /\ flows[f].from = 0
        /\ ~flows[f].slow
        /\ flows[f].fast = FastExitsToCeiling
        /\ flows[f].pid = FastExitsToCeiling
        /\ flows[f].pc = "done"
        /\ flows[f].end = "too many times"
        /\ nextPid <= pidLimit

\* C16: an exit with a measured time of at least 1 second leaves the delay
\* as it was; the delay changes only at a fast exit, by growing 5 seconds or
\* becoming terminal, and the restart after a slow exit still sleeps the
\* accumulated delay.
SlowExitKeepsDelay ==
    [][\A f \in DOMAIN flows :
          /\ flows'[f].delay # flows[f].delay =>
                /\ flows[f].pc = "waiting"
                /\ flows'[f].fast = flows[f].fast + 1
                /\ \/ flows'[f].delay = flows[f].delay + DelayIncrement
                   \/ flows'[f].delay = -1
                /\ flows[f].delay >= 0
          /\ ( /\ flows[f].pc = "waiting"
               /\ flows'[f].pc # "waiting"
               /\ flows'[f].fast = flows[f].fast
               /\ flows'[f].end # "process exited with an error" ) =>
                /\ flows'[f].slow
                /\ flows'[f].delay = flows[f].delay
                /\ flows[f].delay > 0 => flows'[f].pc = "sleeping"
                /\ flows[f].delay = 0 => flows'[f].pc = "launch"
      ]_vars

SlowExitWitness ==
    \E f \in DOMAIN flows :
        /\ flows[f].from = 0
        /\ flows[f].slow
        /\ flows[f].fast = 2
        /\ flows[f].delay = 2 * DelayIncrement
        /\ flows[f].pid = 4
        /\ flows[f].pc = "sleeping"

\* C17: a write-close or move-in event for the file of an excluded directive
\* starts nothing for that directive (no worker, no PID record), and the
\* watcher goes on to the next event.
ExcludedNeverStarts ==
    [][/\ \A n \in ExcludeWorkers :
             /\ pidDir'[n] = NoRecord
             /\ \A f \in DOMAIN flows' : flows'[f].dir # n
       /\ ( /\ watcher = "running"
            /\ queue # <<>>
            /\ Head(queue).ev = "InCloseWrite"
            /\ Head(queue).name \in ExcludeWorkers
            /\ queue' = Tail(queue) ) =>
              /\ watcher' = "running"
              /\ UNCHANGED <<flows, pidDir, alive, nextPid, died>>
      ]_vars

\* C18: at every moment at most one live OS process belongs to one directive.
OneProcessPerDirective ==
    \A d \in Directives :
        Cardinality({f \in DOMAIN flows :
                        flows[f].dir = d /\ flows[f].pid \in alive}) <= 1

\* C19: whenever an explicit stop delivers a signal, the pid it took from
\* the PID record is the live process of a worker of the named directive.
StopSignalsLiveWorker ==
    [][(queue # <<>> /\ Head(queue).ev = "InDelete" /\ queue' = Tail(queue)
        /\ lastStop'.sig # 0) =>
          /\ lastStop'.sig \in alive
          /\ \E f \in DOMAIN flows :
                /\ flows[f].dir = lastStop'.name
                /\ flows[f].pid = lastStop'.sig
      ]_vars

\* C20: after stopWorkers has returned without error, a worker it stopped
\* stays stopped while its config file is still there: its process is not
\* launched again and its PID record does not come back.
ShutdownStaysStopped ==
    [][(bulk.pc = "done" /\ bulk.err = "nil") =>
          \A f \in DOMAIN flows :
              ( /\ \E i \in DOMAIN bulk.removed : bulk.removed[i] = flows[f].dir
                /\ flows[f].pid # 0
                /\ cfg[flows[f].dir] # Absent ) =>
                  /\ ~(flows[f].pc = "launch" /\ flows'[f].pc = "started")
                  /\ ~(flows[f].pc = "started" /\ flows'[f].pc = "waiting")
      ]_vars

====
